---- MODULE Spec2Model ----
(***************************************************************************)
(* A model of jawadb (src/jawadb.py): a JSON file loaded into a tree of    *)
(* dict/list objects, some of which are the change-tracking subclasses     *)
(* _JsonDict/_JsonList, a Database holding the root, the modified flag and *)
(* the file name, and save() writing <file>.tmp and replacing the file.    *)
(*                                                                         *)
(* A value of the tree is a record:                                        *)
(*   [kind |-> "null"]                         Python None / JSON null     *)
(*   [kind |-> "num", n |-> 1]                 an int                      *)
(*   [kind |-> "dict", owner |-> o, items |-> <<[k |-> key, v |-> value]>>]*)
(*   [kind |-> "list", owner |-> o, items |-> <<value, ...>>]              *)
(* owner = 0 is a plain dict/list; owner = d is a _JsonDict/_JsonList      *)
(* whose _parent_db is Database d.  A dict keeps its insertion order.      *)
(***************************************************************************)
EXTENDS Integers, Sequences, FiniteSets, TLC

\* ------------------------------------------------------------------ bounds
MaxNodes == 4      \* containers and scalars in one tree, the root included

\* ------------------------------------------------------------------ values
NoneVal == [kind |-> "null"]
Num(n) == [kind |-> "num", n |-> n]
RawDict(items) == [kind |-> "dict", owner |-> 0, items |-> items]
RawList(items) == [kind |-> "list", owner |-> 0, items |-> items]
StrKey(s) == [t |-> "str", s |-> s, n |-> 0]
IntKey(n) == [t |-> "int", s |-> "", n |-> n]
Item(k, v) == [k |-> k, v |-> v]

IsDict(v) == v.kind = "dict"
IsList(v) == v.kind = "list"
IsContainer(v) == IsDict(v) \/ IsList(v)
IsJsonDict(v) == IsDict(v) /\ v.owner # 0
IsJsonList(v) == IsList(v) /\ v.owner # 0

\* the values held by a container, in order
Children(c) ==
  IF IsDict(c) THEN [i \in 1..Len(c.items) |-> c.items[i].v] ELSE c.items

RECURSIVE Size(_)
RECURSIVE SizeSeq(_)
Size(v) == IF IsContainer(v) THEN 1 + SizeSeq(Children(v)) ELSE 1
SizeSeq(s) == IF s = <<>> THEN 0 ELSE Size(Head(s)) + SizeSeq(Tail(s))

\* ------------------------------------------------- builtin dict and list
KeyPos(c, k) ==
  IF \E i \in 1..Len(c.items) : c.items[i].k = k
  THEN CHOOSE i \in 1..Len(c.items) : c.items[i].k = k
  ELSE 0
HasKey(c, k) == KeyPos(c, k) # 0
\* dict.__setitem__: a present key keeps its position, a new one goes last
DictStore(c, k, v) ==
  IF HasKey(c, k)
  THEN [c EXCEPT !.items[KeyPos(c, k)] = Item(k, v)]
  ELSE [c EXCEPT !.items = Append(@, Item(k, v))]
RemoveAt(s, i) == SubSeq(s, 1, i - 1) \o SubSeq(s, i + 1, Len(s))
\* a list index as Python resolves it: negative counts from the end;
\* 0 when out of range, else the 1-based position
ListPos(c, n) ==
  LET m == IF n < 0 THEN n + Len(c.items) ELSE n
  IN IF m >= 0 /\ m < Len(c.items) THEN m + 1 ELSE 0

\* the result of one method call on a container: the container afterwards,
\* the exception raised ("" for none) and whether _mark_modified was called
Done(c, mark) == [c |-> c, err |-> "", mark |-> mark]
Raise(c, e, mark) == [c |-> c, err |-> e, mark |-> mark]

\* ------------------------------------------------------------- wrapping
JsonDictInit(d, v) == [kind |-> "dict", owner |-> d, items |-> v.items]

RECURSIVE JsonListInit(_, _)
JsonListInit(d, v) ==
  [kind |-> "list", owner |-> d,
   items |-> [i \in 1..Len(v.items) |->
                IF IsDict(v.items[i]) THEN JsonDictInit(d, v.items[i])
                ELSE IF IsList(v.items[i]) THEN JsonListInit(d, v.items[i])
                ELSE v.items[i]]]

\* _JsonList.__init__ stores each nested container through self[i] = ...,
\* which is _JsonList.__setitem__ and so calls _mark_modified
JsonListInitMarks(v) == \E i \in 1..Len(v.items) : IsContainer(v.items[i])

WrapValue(d, v) ==
  IF IsDict(v) /\ ~IsJsonDict(v) THEN JsonDictInit(d, v)
  ELSE IF IsList(v) /\ ~IsJsonList(v) THEN JsonListInit(d, v)
  ELSE v

\* _wrap_value(v) calls _mark_modified: only through _JsonList.__init__
WrapMarks(v) == IsList(v) /\ ~IsJsonList(v) /\ JsonListInitMarks(v)

\* ------------------------------------------------------------ _JsonDict
JsonDictSetItem(c, k, v) == Done(DictStore(c, k, WrapValue(c.owner, v)), TRUE)

JsonDictDelItem(c, k) ==
  IF HasKey(c, k)
  THEN Done([c EXCEPT !.items = RemoveAt(@, KeyPos(c, k))], TRUE)
  ELSE Raise(c, "KeyError", FALSE)

\* the value _JsonDict.get returns
JsonDictGetValue(c, k, default) ==
  IF HasKey(c, k) THEN c.items[KeyPos(c, k)].v ELSE WrapValue(c.owner, default)

JsonDictGet(c, k, default) ==
  IF HasKey(c, k) THEN Done(c, FALSE)
  ELSE JsonDictSetItem(c, k, WrapValue(c.owner, default))

\* ------------------------------------------------------------ _JsonList
JsonListAppend(c, v) ==
  Done([c EXCEPT !.items = Append(@, WrapValue(c.owner, v))], TRUE)

JsonListExtend(c, vs) ==
  Done([c EXCEPT !.items = @ \o [i \in 1..Len(vs) |-> WrapValue(c.owner, vs[i])]],
       TRUE)

\* the argument self._wrap_value(value) is evaluated before list.__setitem__
\* looks at the index, so its marking happens on the failing paths too
JsonListSetItem(c, k, v) ==
  IF k.t # "int" THEN Raise(c, "TypeError", WrapMarks(v))
  ELSE IF ListPos(c, k.n) = 0 THEN Raise(c, "IndexError", WrapMarks(v))
  ELSE Done([c EXCEPT !.items[ListPos(c, k.n)] = WrapValue(c.owner, v)], TRUE)

JsonListDelItem(c, k) ==
  IF k.t # "int" THEN Raise(c, "TypeError", FALSE)
  ELSE IF ListPos(c, k.n) = 0 THEN Raise(c, "IndexError", FALSE)
  ELSE Done([c EXCEPT !.items = RemoveAt(@, ListPos(c, k.n))], TRUE)

JsonListIAdd(c, vs) == JsonListExtend(c, vs)

\* ------------------------------------ the same methods of plain dict/list
PlainDictSetItem(c, k, v) == Done(DictStore(c, k, v), FALSE)
PlainDictDelItem(c, k) ==
  IF HasKey(c, k)
  THEN Done([c EXCEPT !.items = RemoveAt(@, KeyPos(c, k))], FALSE)
  ELSE Raise(c, "KeyError", FALSE)
PlainListAppend(c, v) == Done([c EXCEPT !.items = Append(@, v)], FALSE)
PlainListExtend(c, vs) == Done([c EXCEPT !.items = @ \o vs], FALSE)
PlainListSetItem(c, k, v) ==
  IF k.t # "int" THEN Raise(c, "TypeError", FALSE)
  ELSE IF ListPos(c, k.n) = 0 THEN Raise(c, "IndexError", FALSE)
  ELSE Done([c EXCEPT !.items[ListPos(c, k.n)] = v], FALSE)
PlainListDelItem(c, k) ==
  IF k.t # "int" THEN Raise(c, "TypeError", FALSE)
  ELSE IF ListPos(c, k.n) = 0 THEN Raise(c, "IndexError", FALSE)
  ELSE Done([c EXCEPT !.items = RemoveAt(@, ListPos(c, k.n))], FALSE)

\* what an object without the method or operator op raises: item
\* assignment, item deletion and += are operators (TypeError), the others
\* are attributes (AttributeError)
Unsupported(op) ==
  IF op \in {"setitem", "delitem", "iadd"} THEN "TypeError" ELSE "AttributeError"

\* one method call, dispatched on the class of the object it is called on.
\* op is the method, k its key or index, v its value or default, vs its list
Call(c, op, k, v, vs) ==
  IF IsJsonDict(c) THEN
    CASE op = "setitem" -> JsonDictSetItem(c, k, v)
      [] op = "delitem" -> JsonDictDelItem(c, k)
      [] op = "get" -> JsonDictGet(c, k, v)
      [] OTHER -> Raise(c, Unsupported(op), FALSE)
  ELSE IF IsDict(c) THEN
    CASE op = "setitem" -> PlainDictSetItem(c, k, v)
      [] op = "delitem" -> PlainDictDelItem(c, k)
      [] op = "get" -> Done(c, FALSE)
      [] OTHER -> Raise(c, Unsupported(op), FALSE)
  ELSE IF IsJsonList(c) THEN
    CASE op = "setitem" -> JsonListSetItem(c, k, v)
      [] op = "delitem" -> JsonListDelItem(c, k)
      [] op = "append" -> JsonListAppend(c, v)
      [] op = "extend" -> JsonListExtend(c, vs)
      [] op = "iadd" -> JsonListIAdd(c, vs)
      [] OTHER -> Raise(c, "AttributeError", FALSE)
  ELSE IF IsList(c) THEN
    CASE op = "setitem" -> PlainListSetItem(c, k, v)
      [] op = "delitem" -> PlainListDelItem(c, k)
      [] op = "append" -> PlainListAppend(c, v)
      [] op = "extend" -> PlainListExtend(c, vs)
      [] op = "iadd" -> PlainListExtend(c, vs)
      [] OTHER -> Raise(c, "AttributeError", FALSE)
  ELSE Raise(c, Unsupported(op), FALSE)

\* --------------------------------------------------- indexing into a tree
\* c[k] for a container c: 0 when it raises, else the position of the value
ChildPos(c, k) ==
  IF IsDict(c) THEN KeyPos(c, k)
  ELSE IF IsList(c) /\ k.t = "int" THEN ListPos(c, k.n)
  ELSE 0
ChildAt(c, i) == Children(c)[i]
WithChildAt(c, i, x) ==
  IF IsDict(c) THEN [c EXCEPT !.items[i].v = x] ELSE [c EXCEPT !.items[i] = x]

\* v[p[1]][p[2]]... exists
RECURSIVE ValidPath(_, _)
ValidPath(v, p) ==
  IF p = <<>> THEN TRUE
  ELSE /\ IsContainer(v)
       /\ ChildPos(v, Head(p)) # 0
       /\ ValidPath(ChildAt(v, ChildPos(v, Head(p))), Tail(p))

RECURSIVE Lookup(_, _)
Lookup(v, p) ==
  IF p = <<>> THEN v ELSE Lookup(ChildAt(v, ChildPos(v, Head(p))), Tail(p))

\* the tree after the object at path p has become x (objects are mutated in
\* place, so every holder of the path sees the change)
RECURSIVE ReplaceAt(_, _, _)
ReplaceAt(v, p, x) ==
  IF p = <<>> THEN x
  ELSE WithChildAt(v, ChildPos(v, Head(p)),
                   ReplaceAt(ChildAt(v, ChildPos(v, Head(p))), Tail(p), x))

\* the paths of the containers below v (v itself excluded), each as the
\* keys and indices that lead to it
RECURSIVE ContainerPaths(_)
ContainerPaths(v) ==
  IF ~IsContainer(v) THEN {}
  ELSE UNION { LET x == ChildAt(v, i)
                   k == IF IsDict(v) THEN v.items[i].k ELSE IntKey(i - 1)
               IN IF IsContainer(x)
                  THEN {<<k>>} \cup { <<k>> \o q : q \in ContainerPaths(x) }
                  ELSE {}
               : i \in 1..Len(v.items) }

\* every container of the tree v, the root included, is tracked by d
RECURSIVE AllTracked(_, _)
AllTracked(d, v) ==
  IF ~IsContainer(v) THEN TRUE
  ELSE /\ v.owner = d
       /\ \A i \in 1..Len(v.items) : AllTracked(d, ChildAt(v, i))

\* the tree without its tracking: what the classes hold as JSON data
RECURSIVE Plain(_)
Plain(v) ==
  IF IsDict(v)
  THEN RawDict([i \in 1..Len(v.items) |-> Item(v.items[i].k, Plain(v.items[i].v))])
  ELSE IF IsList(v) THEN RawList([i \in 1..Len(v.items) |-> Plain(v.items[i])])
  ELSE v

\* ------------------------------------------------------ json.dump(indent=2)
\* The text json.dump writes, as the sequence of chunks it is made of.
RECURSIVE Spaces(_)
Spaces(l) == IF l = 0 THEN "" ELSE "  " \o Spaces(l - 1)
NewlineIndent(l) == "\n" \o Spaces(l)
Quote(s) == "\"" \o s \o "\""
\* a dict key as json.dump writes it: an int key becomes a string
KeyText(k) == IF k.t = "str" THEN Quote(k.s) ELSE Quote(ToString(k.n))

RECURSIVE Dumps(_, _)
RECURSIVE DumpsItems(_, _, _)
\* the chunks of the items i.. of container c, whose own level is l
DumpsItems(c, i, l) ==
  IF i > Len(c.items) THEN <<NewlineIndent(l)>>
  ELSE (IF i = 1 THEN <<NewlineIndent(l + 1)>> ELSE <<",", NewlineIndent(l + 1)>>)
       \o (IF IsDict(c)
           THEN <<KeyText(c.items[i].k), ": ">> \o Dumps(c.items[i].v, l + 1)
           ELSE Dumps(c.items[i], l + 1))
       \o DumpsItems(c, i + 1, l)
Dumps(v, l) ==
  IF v.kind = "null" THEN <<"null">>
  ELSE IF v.kind = "num" THEN <<ToString(v.n)>>
  ELSE IF IsDict(v)
    THEN IF v.items = <<>> THEN <<"{}">> ELSE <<"{">> \o DumpsItems(v, 1, l) \o <<"}">>
  ELSE IF v.items = <<>> THEN <<"[]">> ELSE <<"[">> \o DumpsItems(v, 1, l) \o <<"]">>
JsonDump(v) == Dumps(v, 0)

\* -------------------------------------------------------------- json.load
\* The names and numbers that occur in the model's files.
KeyNames == {"a", "b", "0", "1"}
Numbers == 0..2
IsWs(t) == \E l \in 0..(MaxNodes + 1) : t = NewlineIndent(l)
IsKeyTok(t) == \E s \in KeyNames : t = Quote(s)
KeyOfTok(t) == StrKey(CHOOSE s \in KeyNames : t = Quote(s))
IsNumTok(t) == \E n \in Numbers : t = ToString(n)
NumOfTok(t) == CHOOSE n \in Numbers : t = ToString(n)
Tok(toks, i) == IF i >= 1 /\ i <= Len(toks) THEN toks[i] ELSE ""
ParseFail == [ok |-> FALSE, v |-> NoneVal, next |-> 0]
Parsed(v, next) == [ok |-> TRUE, v |-> v, next |-> next]

RECURSIVE ParseValue(_, _)
RECURSIVE ParseMembers(_, _, _)
RECURSIVE ParseElements(_, _, _)
\* the members of an object from chunk i on; acc is the dict built so far
\* (a repeated key keeps its first position and takes the last value)
ParseMembers(toks, i, acc) ==
  IF ~IsKeyTok(Tok(toks, i)) \/ Tok(toks, i + 1) # ": " THEN ParseFail
  ELSE LET r == ParseValue(toks, i + 2) IN
    IF ~r.ok THEN ParseFail
    ELSE LET acc2 == DictStore(acc, KeyOfTok(Tok(toks, i)), r.v) IN
      IF Tok(toks, r.next) = "," /\ IsWs(Tok(toks, r.next + 1))
        THEN ParseMembers(toks, r.next + 2, acc2)
      ELSE IF IsWs(Tok(toks, r.next)) /\ Tok(toks, r.next + 1) = "}"
        THEN Parsed(acc2, r.next + 2)
      ELSE ParseFail
ParseElements(toks, i, acc) ==
  LET r == ParseValue(toks, i) IN
    IF ~r.ok THEN ParseFail
    ELSE LET acc2 == [acc EXCEPT !.items = Append(@, r.v)] IN
      IF Tok(toks, r.next) = "," /\ IsWs(Tok(toks, r.next + 1))
        THEN ParseElements(toks, r.next + 2, acc2)
      ELSE IF IsWs(Tok(toks, r.next)) /\ Tok(toks, r.next + 1) = "]"
        THEN Parsed(acc2, r.next + 2)
      ELSE ParseFail
ParseValue(toks, i) ==
  LET t == Tok(toks, i) IN
  IF t = "null" THEN Parsed(NoneVal, i + 1)
  ELSE IF IsNumTok(t) THEN Parsed(Num(NumOfTok(t)), i + 1)
  ELSE IF t = "{}" THEN Parsed(RawDict(<<>>), i + 1)
  ELSE IF t = "[]" THEN Parsed(RawList(<<>>), i + 1)
  ELSE IF t = "{" /\ IsWs(Tok(toks, i + 1)) THEN ParseMembers(toks, i + 2, RawDict(<<>>))
  ELSE IF t = "[" /\ IsWs(Tok(toks, i + 1)) THEN ParseElements(toks, i + 2, RawList(<<>>))
  ELSE ParseFail
\* json.load of a whole file: ok is FALSE for a JSONDecodeError
JsonLoad(toks) ==
  LET r == ParseValue(toks, 1)
  IN IF r.ok /\ r.next = Len(toks) + 1 THEN r ELSE ParseFail

\* ------------------------------------------------------------------ state
VARIABLES
  fs,       \* file name -> inode number, 0 when no such file
  inodes,   \* inode number -> the chunks of text the file holds
  db,       \* Database instance -> its fields and where it is in save()
  active,   \* _active_dbs
  alive,    \* the process is running
  last,     \* the call or step that was taken last and how it ended
  ghost,    \* per Database: what it last loaded or saved, and the content
            \* of its file when its running or failed save() began
  proc      \* the process: where it is between start and exit, the signals
            \* whose handler is still _signal_handler, the exit status
vars == <<fs, inodes, db, active, alive, last, ghost, proc>>

Inodes == {1, 2, 3, 4}
DbFile == "db.json"
\* save() writing into the file itself
TempName_InPlace(f) == f
TempName(f) == f \o ".tmp"
NoHandle == [ino |-> 0, pos |-> 0]
NoText == <<"no file">>

\* the content of the file called name, NoText when there is none
TextOf(fsv, ino, name) == IF fsv[name] = 0 THEN NoText ELSE ino[fsv[name]]
FileText(name) == TextOf(fs, inodes, name)
Exists(name) == fs[name] # 0

\* inodes a name or an open file object refers to, the file objects of
\* the save() calls a signal handler runs on top of included
InUse(fsv, dbv) ==
  {fsv[n] : n \in DOMAIN fsv} \cup {dbv[d].f.ino : d \in DOMAIN dbv}
  \cup UNION { {dbv[d].held[i].f.ino : i \in 1..Len(dbv[d].held)} : d \in DOMAIN dbv }
FreeInode(fsv, dbv) == CHOOSE i \in Inodes : i \notin InUse(fsv, dbv) /\
                         \A j \in Inodes : j \notin InUse(fsv, dbv) => i <= j
\* an inode nothing refers to any more holds nothing
Collect(ino, fsv, dbv) ==
  [i \in Inodes |-> IF i \in InUse(fsv, dbv) THEN ino[i] ELSE <<>>]

\* a file object that puts what it writes at the end of the file
WriteAt_Append(text, off, chunk) == text \o chunk

\* text written at offset off over what the file holds: nothing is written
\* when the chunk is empty; a file shorter than off is filled up to it with
\* zero bytes
WriteAt(text, off, chunk) ==
  LET t == IF Len(text) < off
           THEN text \o [i \in 1..(off - Len(text)) |-> "NUL"] ELSE text
  IN IF chunk = <<>> THEN text
     ELSE SubSeq(t, 1, off) \o chunk \o SubSeq(t, off + Len(chunk) + 1, Len(t))

Outcome(op, err, depth, ret) == [op |-> op, err |-> err, depth |-> depth, ret |-> ret]

\* the trees a file holds when the program starts
a == StrKey("a")
b == StrKey("b")
InitTrees ==
  { RawDict(<<>>),
    RawList(<<>>),
    Num(1),
    RawDict(<<Item(a, RawDict(<<Item(b, RawList(<<>>))>>))>>),
    RawList(<<RawDict(<<Item(a, RawList(<<>>))>>)>>),
    RawList(<<RawList(<<>>), Num(1)>>) }

\* the arguments the calls are made with
Keys == {a}
Indices == {IntKey(0)}
StepValues == { Num(1), RawList(<<>>) }
\* a caller indexes a sequence by position and anything else by name
KeysFor(c) == IF IsList(c) THEN Indices ELSE Keys
Values == { Num(1), RawList(<<>>), RawDict(<<Item(b, RawList(<<>>))>>) }
ValueLists == { <<>>, <<Num(1)>> }
Dbs == {1}

\* a Database before __init__: pc is where the call or the save() that
\* runs on it stands, f the file object of that save(), key and arg the
\* arguments of that call, held the calls and save()s on it that a signal handler runs
\* on top of (the innermost last)
NewDb(name) ==
  [filename |-> name, modified |-> FALSE, inner |-> NoneVal,
   pc |-> "unopened", f |-> NoHandle, key |-> NoneVal, arg |-> NoneVal,
   held |-> <<>>]
\* cut: a call on the Database was left before it came to its
\* _mark_modified
NoGhost == [snapshot |-> NoText, pre |-> NoText, cut |-> FALSE]

\* the process after `import jawadb`: running, both handlers registered
\* (lines 39-41), no handler running (stack), no exception on its way out
\* of a handler (exc), no exit status yet, no signal delivered, none caught
\* by _signal_handler (caught becomes the point the code was at when the
\* first one came, hit the save() the first one that came during a save()
\* found under way); readonly are the file names that cannot be opened for
\* writing
Signals == {"SIGINT", "SIGTERM"}
MaxSignals == 2
NoHit == [d |-> 0, pc |-> "", pre |-> NoText]
NewProc(readonly) ==
  [phase |-> "run", todo |-> {}, handlers |-> Signals, code |-> -1,
   caught |-> "", readonly |-> readonly,
   stack |-> <<>>, exc |-> 0, delivered |-> 0, hit |-> NoHit]

Init ==
  /\ \E t \in InitTrees \cup {NoneVal} :
        \* NoneVal here stands for: the file does not exist
        /\ fs = [n \in {DbFile, TempName(DbFile)} |->
                   IF n = DbFile /\ t # NoneVal THEN 1 ELSE 0]
        /\ inodes = [i \in Inodes |-> IF i = 1 /\ t # NoneVal THEN JsonDump(t) ELSE <<>>]
  /\ db = [d \in Dbs |-> NewDb(DbFile)]
  /\ active = {}
  /\ alive = TRUE
  /\ last = Outcome("start", "", 0, "")
  /\ ghost = [d \in Dbs |-> NoGhost]
  /\ proc = NewProc({})

\* the Databases on which a call or a save() of the code that runs now is
\* under way
Busy(dbv) ==
  { d \in DOMAIN dbv : dbv[d].pc \notin {"unopened", "idle", "gone"} }

\* ----------------------------------------------------- Database.__init__
\* the root container __init__ builds from the parsed data
LoadInner(d, data) ==
  IF IsDict(data) THEN JsonDictInit(d, data)
  ELSE IF IsList(data) THEN JsonListInit(d, data)
  ELSE NoneVal
\* _modified after __init__: set to False first, then set by whatever the
\* construction of the root container marks
LoadModified(data) == IsList(data) /\ JsonListInitMarks(data)

Load(d) ==
  /\ alive /\ proc.phase = "run" /\ proc.stack = <<>> /\ Busy(db) = {}
  /\ db[d].pc = "unopened"
  /\ LET name == db[d].filename IN
     IF Exists(name) /\ ~JsonLoad(FileText(name)).ok
     THEN \* json.load raises: no Database comes to be
          /\ last' = Outcome("load", "JSONDecodeError", 0, "")
          /\ UNCHANGED <<fs, inodes, db, active, alive, ghost, proc>>
     ELSE /\ db' = [db EXCEPT
                ![d].pc = "idle",
                ![d].inner = IF Exists(name)
                             THEN LoadInner(d, JsonLoad(FileText(name)).v)
                             ELSE NoneVal,
                ![d].modified = Exists(name) /\ LoadModified(JsonLoad(FileText(name)).v)]
          /\ active' = active \cup {d}
          /\ ghost' = [ghost EXCEPT ![d].snapshot = FileText(name)]
          /\ last' = Outcome("load", "", 0, "")
          /\ UNCHANGED <<fs, inodes, alive, proc>>

\* --------------------------------------------------- calls on a Database
\* a call can be made: the program runs (not a signal handler, not an exit
\* hook) and it is in no other call
Ready(d) ==
  /\ alive /\ proc.phase = "run" /\ proc.stack = <<>>
  /\ db[d].pc = "idle" /\ Busy(db) = {}

\* Database._mark_modified
MarkModified(dbv, d) == [dbv EXCEPT ![d].modified = TRUE]

\* the Databases after a method of the container at path p of d, an object
\* of owner o, has returned r
Commit(d, p, o, r) ==
  LET dbt == [db EXCEPT ![d].inner = ReplaceAt(@, p, r.c)]
  IN IF r.mark THEN MarkModified(dbt, o) ELSE dbt

\* whether the object a get returned is the one the container now holds
\* under k ("stored") or one the tree does not hold ("detached")
RetOf(c, k, rv) ==
  IF HasKey(c, k) /\ c.items[KeyPos(c, k)].v = rv THEN "stored" ELSE "detached"

\* _ensure_dict / _ensure_list replacing a root of the other kind instead of
\* raising
EnsureDict_Replaces(d, inner) ==
  IF IsJsonDict(inner) THEN inner ELSE JsonDictInit(d, RawDict(<<>>))
EnsureList_Replaces(d, inner) ==
  IF IsJsonList(inner) THEN inner ELSE JsonListInit(d, RawList(<<>>))

\* the root container after _ensure_dict / _ensure_list, which raise a
\* TypeError when it is then not a _JsonDict / not a _JsonList
EnsureDict(d, inner) ==
  IF inner = NoneVal THEN JsonDictInit(d, RawDict(<<>>)) ELSE inner
EnsureList(d, inner) ==
  IF inner = NoneVal THEN JsonListInit(d, RawList(<<>>)) ELSE inner

\* a call on the Database that raised e before it changed anything
DbRaises(op, e) ==
  /\ last' = Outcome(op, e, 0, "")
  /\ UNCHANGED <<fs, inodes, db, active, alive, ghost, proc>>

\* a call on the Database that went on to the root container and got r
DbReturns(d, op, r, ret) ==
  /\ Size(r.c) <= MaxNodes
  /\ db' = Commit(d, <<>>, d, r)
  /\ last' = Outcome(op, r.err, 0, ret)
  /\ UNCHANGED <<fs, inodes, active, alive, ghost, proc>>

\* Database.__setitem__: no _ensure_dict, the root is used as it is
DbSetItem(d, k, v) ==
  /\ Ready(d)
  /\ IF db[d].inner = NoneVal THEN DbRaises("setitem", "TypeError")
     ELSE DbReturns(d, "setitem", Call(db[d].inner, "setitem", k, v, <<>>), "")

\* Database.__delitem__
DbDelItem(d, k) ==
  /\ Ready(d)
  /\ IF db[d].inner = NoneVal THEN DbRaises("delitem", "TypeError")
     ELSE DbReturns(d, "delitem", Call(db[d].inner, "delitem", k, NoneVal, <<>>), "")

\* Database.append
DbAppend(d, v) ==
  /\ Ready(d)
  /\ LET c == EnsureList(d, db[d].inner) IN
     IF ~IsJsonList(c) THEN DbRaises("append", "TypeError")
     ELSE DbReturns(d, "append", JsonListAppend(c, v), "")

\* Database.extend
DbExtend(d, vs) ==
  /\ Ready(d)
  /\ LET c == EnsureList(d, db[d].inner) IN
     IF ~IsJsonList(c) THEN DbRaises("extend", "TypeError")
     ELSE DbReturns(d, "extend", JsonListExtend(c, vs), "")

\* Database.__iadd__
DbIAdd(d, vs) ==
  /\ Ready(d)
  /\ LET c == EnsureList(d, db[d].inner) IN
     IF ~IsJsonList(c) THEN DbRaises("iadd", "TypeError")
     ELSE DbReturns(d, "iadd", JsonListIAdd(c, vs), "")

\* Database.get: _JsonDict.get of the root, then its own check of the key
DbGet(d, k, default) ==
  /\ Ready(d)
  /\ LET c == EnsureDict(d, db[d].inner) IN
     IF ~IsJsonDict(c) THEN DbRaises("get", "TypeError")
     ELSE LET r1 == JsonDictGet(c, k, default)
              value == JsonDictGetValue(c, k, default)
              r == IF ~HasKey(r1.c, k)
                   THEN JsonDictSetItem(r1.c, k, WrapValue(d, value))
                   ELSE r1
              rv == IF ~HasKey(r1.c, k) THEN WrapValue(d, value) ELSE value
          IN DbReturns(d, "get", r, RetOf(r.c, k, rv))

\* item in container: a key of a dict, an element of a list
Contains(c, k) ==
  IF IsDict(c) THEN HasKey(c, k)
  ELSE k.t = "int" /\ \E i \in 1..Len(c.items) : c.items[i] = Num(k.n)

\* __contains__ going through _ensure_dict as get does
DbContains_Ensures(d, k) ==
  /\ Ready(d)
  /\ db' = [db EXCEPT ![d].inner = EnsureDict(d, @)]
  /\ last' = Outcome("contains", "", 0,
                     IF IsDict(db'[d].inner) /\ Contains(db'[d].inner, k)
                     THEN "true" ELSE "false")
  /\ UNCHANGED <<fs, inodes, active, alive, ghost, proc>>

\* Database.__contains__
DbContains(d, k) ==
  /\ Ready(d)
  /\ last' = Outcome("contains", "", 0,
                     IF db[d].inner # NoneVal /\ Contains(db[d].inner, k)
                     THEN "true" ELSE "false")
  /\ UNCHANGED <<fs, inodes, db, active, alive, ghost, proc>>

\* ---- the same calls statement by statement, for a signal handler can run
\* between any two statements
\* Database.__setitem__ (line 157) up to the entry of
\* _JsonDict.__setitem__ (line 64) or _JsonList.__setitem__ (line 103):
\* nothing has changed yet; on an uninitialized root line 157 raises
SetItemEnter(d, k, v) ==
  /\ Ready(d)
  /\ IF db[d].inner = NoneVal THEN DbRaises("setitem", "TypeError")
     ELSE LET r == Call(db[d].inner, "setitem", k, v, <<>>) IN
          /\ r.err = "" => Size(r.c) <= MaxNodes
          /\ db' = [db EXCEPT ![d].pc = "entered", ![d].key = k, ![d].arg = v]
          /\ last' = Outcome("setitem", "", 0, "entered")
          /\ UNCHANGED <<fs, inodes, active, alive, ghost, proc>>

\* the argument of the store of line 65 or line 104:
\* self._wrap_value(value) has returned, and has called _mark_modified when
\* the value is a list that holds a container; nothing is stored yet
SetItemWrap(d) ==
  /\ alive /\ db[d].pc = "entered"
  /\ db' = [db EXCEPT ![d].modified = @ \/ WrapMarks(db[d].arg),
                      ![d].pc = "wrapped"]
  /\ last' = Outcome("setitem", "", 0, "wrapped")
  /\ UNCHANGED <<fs, inodes, active, alive, ghost, proc>>

\* super().__setitem__ of line 65 or line 104: the wrapped value is stored
\* and _mark_modified is still to be called, or the store raises and the
\* call is left
SetItemStore(d) ==
  /\ alive /\ db[d].pc = "wrapped" /\ db[d].key # NoneVal
  /\ LET r == Call(db[d].inner, "setitem", db[d].key, db[d].arg, <<>>) IN
     /\ db' = [db EXCEPT ![d].inner = r.c,
                         ![d].pc = IF r.err = "" /\ r.mark THEN "mark" ELSE "idle",
                         ![d].key = NoneVal, ![d].arg = NoneVal]
     /\ last' = Outcome("setitem", r.err, 0, IF r.err = "" THEN "stored" ELSE "")
  /\ UNCHANGED <<fs, inodes, active, alive, ghost, proc>>

\* Database.append up to line 163: _ensure_list has returned or raised
AppendEnsure(d, v) ==
  /\ Ready(d)
  /\ LET c == EnsureList(d, db[d].inner) IN
     IF ~IsJsonList(c) THEN DbRaises("append", "TypeError")
     ELSE /\ Size(JsonListAppend(c, v).c) <= MaxNodes
          /\ db' = [db EXCEPT ![d].inner = c, ![d].pc = "ensured", ![d].arg = v]
          /\ last' = Outcome("append", "", 0, "ensured")
          /\ UNCHANGED <<fs, inodes, active, alive, ghost, proc>>

\* _JsonList.append up to the argument of the append of line 96:
\* self._wrap_value(value) has returned, and has called _mark_modified when
\* the value is a list that holds a container; nothing is appended yet
AppendWrap(d) ==
  /\ alive /\ db[d].pc = "ensured"
  /\ db' = [db EXCEPT ![d].modified = @ \/ WrapMarks(db[d].arg),
                      ![d].pc = "wrapped"]
  /\ last' = Outcome("append", "", 0, "wrapped")
  /\ UNCHANGED <<fs, inodes, active, alive, ghost, proc>>

\* super().append of line 96: the wrapped value is appended, _mark_modified
\* is still to be called
AppendStore(d) ==
  /\ alive /\ db[d].pc = "wrapped" /\ db[d].key = NoneVal
  /\ LET r == JsonListAppend(db[d].inner, db[d].arg) IN
     db' = [db EXCEPT ![d].inner = r.c, ![d].pc = "mark", ![d].arg = NoneVal]
  /\ last' = Outcome("append", "", 0, "stored")
  /\ UNCHANGED <<fs, inodes, active, alive, ghost, proc>>

\* self._parent_db._mark_modified() (lines 66, 97, 105), and the call
\* returns
CallMark(d) ==
  /\ alive /\ db[d].pc = "mark"
  /\ db' = [MarkModified(db, d) EXCEPT ![d].pc = "idle"]
  /\ last' = Outcome(last.op, "", 0, "")
  /\ UNCHANGED <<fs, inodes, active, alive, ghost, proc>>

\* ------------------------------- calls on a container reached by indexing
\* the methods a caller uses on a mapping and on a sequence
DictOps == {"setitem", "delitem", "get"}
ListOps == {"setitem", "delitem", "append", "extend", "iadd"}

\* doc[p[1]][p[2]]...op(...): Database.__getitem__ and the containers'
\* own indexing lead to the object, whose class decides what op does
NestedCall(d, p, op, k, v, vs) ==
  /\ Ready(d)
  /\ db[d].inner # NoneVal
  /\ p \in ContainerPaths(db[d].inner)
  /\ LET c == Lookup(db[d].inner, p)
         r == Call(c, op, k, v, vs)
         rv == IF IsJsonDict(c) THEN JsonDictGetValue(c, k, v)
               ELSE IF HasKey(c, k) THEN c.items[KeyPos(c, k)].v ELSE v
     IN /\ op \in (IF IsDict(c) THEN DictOps ELSE ListOps)
        /\ Size(db[d].inner) - Size(c) + Size(r.c) <= MaxNodes
        /\ db' = Commit(d, p, c.owner, r)
        /\ last' = Outcome(op, r.err, Len(p),
                           IF op = "get" THEN RetOf(r.c, k, rv) ELSE "")
  /\ UNCHANGED <<fs, inodes, active, alive, ghost, proc>>

\* --------------------------------------------------------- Database.save
\* save() that writes only while the file still holds what the Database
\* last loaded or saved
SaveWrites_Unchanged(d) ==
  /\ db[d].modified /\ db[d].inner # NoneVal
  /\ FileText(db[d].filename) = ghost[d].snapshot

\* save() has something to write
SaveWrites(d) == db[d].modified /\ db[d].inner # NoneVal

\* what builtins.open(temp_filename, 'w') opens: the file of that name,
\* emptied, or a new file
TempInode(d) ==
  IF Exists(TempName(db[d].filename)) THEN fs[TempName(db[d].filename)]
  ELSE FreeInode(fs, db)

\* the names after os.replace(tmp, name)
Replaced(fsv, tmp, name) == [fsv EXCEPT ![name] = fsv[tmp], ![tmp] = 0]

\* save() that leaves _modified set
Save_KeepsFlag(d) ==
  /\ Ready(d)
  /\ IF ~SaveWrites(d)
     THEN /\ last' = Outcome("save", "", 0, "noop")
          /\ UNCHANGED <<fs, inodes, db, active, alive, ghost, proc>>
     ELSE LET name == db[d].filename
              tmp == TempName(name)
              ino == TempInode(d)
              text == JsonDump(db[d].inner)
          IN /\ fs' = Replaced([fs EXCEPT ![tmp] = ino], tmp, name)
             /\ inodes' = Collect([inodes EXCEPT ![ino] = text], fs', db)
             /\ ghost' = [ghost EXCEPT ![d].snapshot = text]
             /\ last' = Outcome("save", "", 0, "saved")
             /\ UNCHANGED <<db, active, alive, proc>>

\* save() as one step: nothing fails and nothing comes in between
Save(d) ==
  /\ Ready(d)
  /\ IF ~SaveWrites(d)
     THEN /\ last' = Outcome("save", "", 0, "noop")
          /\ UNCHANGED <<fs, inodes, db, active, alive, ghost, proc>>
     ELSE LET name == db[d].filename
              tmp == TempName(name)
              ino == TempInode(d)
              text == JsonDump(db[d].inner)
          IN /\ fs' = Replaced([fs EXCEPT ![tmp] = ino], tmp, name)
             /\ db' = [db EXCEPT ![d].modified = FALSE]
             /\ inodes' = Collect([inodes EXCEPT ![ino] = text], fs', db')
             /\ ghost' = [ghost EXCEPT ![d].snapshot = text]
             /\ last' = Outcome("save", "", 0, "saved")
             /\ UNCHANGED <<active, alive, proc>>

\* ---- save() step by step, with the failures of the file system
\* save() when there is nothing to write
SaveNoop(d) ==
  /\ Ready(d)
  /\ ~SaveWrites(d)
  /\ last' = Outcome("save", "", 0, "noop")
  /\ UNCHANGED <<fs, inodes, db, active, alive, ghost, proc>>

\* save() clearing _modified before it writes
SaveOpen_ClearsFlag(d) ==
  /\ Ready(d)
  /\ SaveWrites(d)
  /\ fs' = [fs EXCEPT ![TempName(db[d].filename)] = TempInode(d)]
  /\ inodes' = [inodes EXCEPT ![TempInode(d)] = <<>>]
  /\ db' = [db EXCEPT ![d].pc = "dump", ![d].modified = FALSE,
                      ![d].f = [ino |-> TempInode(d), pos |-> 0]]
  /\ ghost' = [ghost EXCEPT ![d].pre = FileText(db[d].filename)]
  /\ last' = Outcome("save", "", 0, "open")
  /\ UNCHANGED <<active, alive, proc>>

\* builtins.open(temp_filename, 'w'): the file is created, or emptied
SaveOpen(d) ==
  /\ Ready(d)
  /\ SaveWrites(d)
  /\ fs' = [fs EXCEPT ![TempName(db[d].filename)] = TempInode(d)]
  /\ inodes' = [inodes EXCEPT ![TempInode(d)] = <<>>]
  /\ db' = [db EXCEPT ![d].pc = "dump", ![d].f = [ino |-> TempInode(d), pos |-> 0]]
  /\ ghost' = [ghost EXCEPT ![d].pre = FileText(db[d].filename)]
  /\ last' = Outcome("save", "", 0, "open")
  /\ UNCHANGED <<active, alive, proc>>

\* open raises (no permission, no directory): nothing was touched
SaveOpenFails(d) ==
  /\ Ready(d)
  /\ SaveWrites(d)
  /\ ghost' = [ghost EXCEPT ![d].pre = FileText(db[d].filename)]
  /\ last' = Outcome("save", "OSError", 0, "open")
  /\ UNCHANGED <<fs, inodes, db, active, alive, proc>>

\* json.dump under way: the file object passes the chunks up to n on to
\* the file
SaveFlush(d, n) ==
  /\ alive /\ db[d].pc = "dump"
  /\ LET text == JsonDump(db[d].inner) IN
     /\ n > db[d].f.pos /\ n < Len(text)
     /\ inodes' = [inodes EXCEPT ![db[d].f.ino] =
                     WriteAt(@, db[d].f.pos, SubSeq(text, db[d].f.pos + 1, n))]
     /\ db' = [db EXCEPT ![d].f.pos = n]
  /\ last' = Outcome("save", "", 0, "flush")
  /\ UNCHANGED <<fs, active, alive, ghost, proc>>

\* a write raises (disk full): the with block closes the file, which keeps
\* what had reached it, and save() is left with the exception
SaveWriteFails(d) ==
  /\ alive /\ db[d].pc = "dump"
  /\ db' = [db EXCEPT ![d].pc = "idle", ![d].f = NoHandle]
  /\ inodes' = Collect(inodes, fs, db')
  /\ last' = Outcome("save", "OSError", 0, "write")
  /\ UNCHANGED <<fs, active, alive, ghost, proc>>

\* json.dump has returned and the with block closes the file: the rest of
\* the text reaches it
SaveClose(d) ==
  /\ alive /\ db[d].pc = "dump"
  /\ LET text == JsonDump(db[d].inner) IN
     /\ db' = [db EXCEPT ![d].pc = "closed", ![d].f = NoHandle]
     /\ inodes' = Collect([inodes EXCEPT ![db[d].f.ino] =
                             WriteAt(@, db[d].f.pos, SubSeq(text, db[d].f.pos + 1, Len(text)))],
                          fs, db')
  /\ last' = Outcome("save", "", 0, "close")
  /\ UNCHANGED <<fs, active, alive, ghost, proc>>

\* os.replace(temp_filename, self._filename)
SaveReplace(d) ==
  /\ alive /\ db[d].pc = "closed"
  /\ Exists(TempName(db[d].filename))
  /\ fs' = Replaced(fs, TempName(db[d].filename), db[d].filename)
  /\ inodes' = Collect(inodes, fs', db)
  /\ db' = [db EXCEPT ![d].pc = "replaced"]
  /\ last' = Outcome("save", "", 0, "replace")
  /\ UNCHANGED <<active, alive, ghost, proc>>

\* os.replace raises: the temporary file stays, save() is left
SaveReplaceFails(d) ==
  /\ alive /\ db[d].pc = "closed"
  /\ db' = [db EXCEPT ![d].pc = "idle"]
  /\ last' = Outcome("save", "OSError", 0, "replace")
  /\ UNCHANGED <<fs, inodes, active, alive, ghost, proc>>

\* self._modified = False, and save() returns
SaveClear(d) ==
  /\ alive /\ db[d].pc = "replaced"
  /\ db' = [db EXCEPT ![d].pc = "idle", ![d].modified = FALSE]
  /\ ghost' = [ghost EXCEPT ![d].snapshot = FileText(db[d].filename),
                            ![d].pre = NoText]
  /\ last' = Outcome("save", "", 0, "saved")
  /\ UNCHANGED <<fs, inodes, active, alive, proc>>

\* the process is killed: what the files hold stays as it is
Crash ==
  /\ alive
  /\ alive' = FALSE
  /\ last' = Outcome("crash", "", 0, "")
  /\ UNCHANGED <<fs, inodes, db, active, ghost, proc>>

\* --------------------------------------- the registry, signals and the exit
\* the files and the objects of the program as one value
Here == [fs |-> fs, inodes |-> inodes, db |-> db, ghost |-> ghost]

\* Database.save of d called in st raises: there is something to write and
\* the temporary file cannot be opened
SaveRaises(st, d, readonly) ==
  /\ st.db[d].modified /\ st.db[d].inner # NoneVal
  /\ TempName(st.db[d].filename) \in readonly

\* Database.save of d called in st and run to its end: what it leaves
SaveRun(st, d, readonly) ==
  IF ~(st.db[d].modified /\ st.db[d].inner # NoneVal) \/ SaveRaises(st, d, readonly)
  THEN st
  ELSE LET name == st.db[d].filename
           tmp == TempName(name)
           ino == IF st.fs[tmp] # 0 THEN st.fs[tmp] ELSE FreeInode(st.fs, st.db)
           text == JsonDump(st.db[d].inner)
           fs2 == Replaced([st.fs EXCEPT ![tmp] = ino], tmp, name)
           db2 == [st.db EXCEPT ![d].modified = FALSE]
       IN [fs |-> fs2,
           inodes |-> Collect([st.inodes EXCEPT ![ino] = text], fs2, db2),
           db |-> db2,
           ghost |-> [st.ghost EXCEPT ![d].snapshot = text]]

\* db_ref() of the weak reference a finalizer was given: the Database, or
\* None (0) once the Database is being reclaimed, for the finalizer runs
\* after the weak references to its object have been cleared
DbRef(d, reclaimed) == IF reclaimed THEN 0 ELSE d

\* _save_db(db_ref), db being what db_ref() returns: whether it goes on to
\* db.save() (line 19)
SaveDb(dbv, referent) == referent # 0 /\ dbv[referent].modified

\* how a save() called by an exit hook or by the signal handler stands at
\* the first point where something has changed: it has returned at once,
\* its open has raised, or the temporary file is open
SaveEntered(d) ==
  IF ~SaveWrites(d) THEN "noop"
  ELSE IF SaveRaises(Here, d, proc.readonly) THEN "OSError"
  ELSE "open"

\* Database.save called by an exit hook or by the signal handler, up to
\* that point
SaveEnter(d) ==
  IF SaveEntered(d) # "open"
  THEN UNCHANGED <<fs, inodes, db, ghost>>
  ELSE /\ fs' = [fs EXCEPT ![TempName(db[d].filename)] = TempInode(d)]
       /\ inodes' = [inodes EXCEPT ![TempInode(d)] = <<>>]
       /\ db' = [db EXCEPT ![d].pc = "dump",
                           ![d].f = [ino |-> TempInode(d), pos |-> 0]]
       /\ ghost' = [ghost EXCEPT ![d].pre = FileText(db[d].filename)]

\* the Databases whose finalizer is alive: created and not reclaimed
Finalizable(dbv) ==
  { d \in DOMAIN dbv : dbv[d].pc \notin {"unopened", "gone"} }

\* an exit hook, or the program (phase "run"), is what runs, and it is
\* between two calls
InHook(phase) ==
  alive /\ proc.phase = phase /\ proc.stack = <<>> /\ Busy(db) = {}

\* the program ends normally: the interpreter starts on its exit hooks, the
\* one of weakref.finalize first (registered last), then _save_all_dbs
ProcExit ==
  /\ InHook("run")
  /\ proc' = [proc EXCEPT !.phase = "finalizers", !.todo = Finalizable(db),
                          !.code = 0]
  /\ last' = Outcome("exit", "", 0, "")
  /\ UNCHANGED <<fs, inodes, db, active, alive, ghost>>

\* at exit the finalizer of a Database that is still there is called:
\* _save_db, which calls save() when the flag is set; an OSError of that
\* save() is printed and dropped
ExitFinalizer(d) ==
  /\ InHook("finalizers") /\ d \in proc.todo
  /\ IF SaveDb(db, DbRef(d, FALSE)) THEN SaveEnter(d)
     ELSE UNCHANGED <<fs, inodes, db, ghost>>
  /\ proc' = [proc EXCEPT !.todo = @ \ {d}]
  /\ last' = Outcome("finalizer", "", 0,
                     IF SaveDb(db, DbRef(d, FALSE)) THEN SaveEntered(d) ELSE "noop")
  /\ UNCHANGED <<active, alive>>

\* the finalizers are through: atexit calls _save_all_dbs
ExitNextHook ==
  /\ InHook("finalizers") /\ proc.todo = {}
  /\ proc' = [proc EXCEPT !.phase = "sweep", !.todo = active]
  /\ last' = Outcome("exit", "", 0, "sweep")
  /\ UNCHANGED <<fs, inodes, db, active, alive, ghost>>

\* one turn of the loop of _save_all_dbs called at exit: db.save() is
\* called; what it raises is discarded
ExitSweep(d) ==
  /\ InHook("sweep") /\ d \in proc.todo
  /\ SaveEnter(d)
  /\ proc' = [proc EXCEPT !.todo = @ \ {d}]
  /\ last' = Outcome("sweep", "", 0, SaveEntered(d))
  /\ UNCHANGED <<active, alive>>

\* the exit hooks are through: the process ends with the status it has
ExitDone ==
  /\ InHook("sweep") /\ proc.todo = {}
  /\ proc' = [proc EXCEPT !.phase = "dead"]
  /\ alive' = FALSE
  /\ last' = Outcome("exit", "", 0, "dead")
  /\ UNCHANGED <<fs, inodes, db, active, ghost>>

\* where the code that runs is: in a signal handler, at a step of a call
\* or of a save(), in an exit hook, or in the program
At(dbv, pr) ==
  IF pr.stack # <<>> THEN "handler"
  ELSE IF Busy(dbv) = {} THEN pr.phase
  ELSE dbv[CHOOSE d \in Busy(dbv) : TRUE].pc

\* the call of a handler: the signal it was called for, where it stands
\* ("sweep" in _save_all_dbs of line 32, "reset" after line 34, "default"
\* in signal.default_int_handler), the Databases its loop has still to
\* save, and the Database (0 for none) a call or save() on which is under
\* way in the code it was called on top of
Frame(s, stage, todo, d) == [sig |-> s, stage |-> stage, todo |-> todo, d |-> d]
Top == proc.stack[Len(proc.stack)]

\* the Databases once a handler is called: the call or save() under way is
\* set aside, with its open file, until the handler is left
Suspended(dbv) ==
  [d \in DOMAIN dbv |->
     IF d \in Busy(dbv)
     THEN [dbv[d] EXCEPT !.held = Append(@, [pc |-> dbv[d].pc, f |-> dbv[d].f]),
                         !.pc = "idle", !.f = NoHandle,
                         !.key = NoneVal, !.arg = NoneVal]
     ELSE dbv[d]]

\* a signal is delivered between two instructions of whatever runs, and the
\* handler registered for it is called: _signal_handler, or
\* signal.default_int_handler once line 34 has put it in its place
Signal(s) ==
  /\ alive /\ proc.phase # "dead" /\ proc.exc = 0
  /\ proc.delivered < MaxSignals
  /\ LET d == IF Busy(db) = {} THEN 0 ELSE CHOOSE x \in Busy(db) : TRUE
         ours == s \in proc.handlers
     IN /\ db' = Suspended(db)
        /\ proc' = [proc EXCEPT
             !.stack = Append(@, IF ours THEN Frame(s, "sweep", active, d)
                                 ELSE Frame(s, "default", {}, d)),
             !.delivered = @ + 1,
             !.caught = IF ours /\ @ = "" THEN At(db, proc) ELSE @,
             !.hit = IF ours /\ @.d = 0 /\ d # 0
                        /\ db[d].pc \in {"dump", "closed", "replaced"}
                     THEN [d |-> d, pc |-> db[d].pc, pre |-> ghost[d].pre]
                     ELSE @]
  /\ last' = Outcome("signal", "", 0, At(db, proc))
  /\ UNCHANGED <<fs, inodes, active, alive, ghost>>

\* the handler that runs is at stage, between two calls
InHandler(stage) ==
  /\ alive /\ proc.stack # <<>> /\ proc.exc = 0
  /\ Top.stage = stage /\ Busy(db) = {}

\* one turn of the loop of _save_all_dbs called by _signal_handler
HandlerSave(d) ==
  /\ InHandler("sweep") /\ d \in Top.todo
  /\ SaveEnter(d)
  /\ proc' = [proc EXCEPT !.stack[Len(proc.stack)].todo = @ \ {d}]
  /\ last' = Outcome("handler", "", 0, SaveEntered(d))
  /\ UNCHANGED <<active, alive>>

\* line 34: signal.signal(signum, signal.default_int_handler)
HandlerReset ==
  /\ InHandler("sweep") /\ Top.todo = {}
  /\ proc' = [proc EXCEPT !.stack[Len(proc.stack)].stage = "reset",
                          !.handlers = @ \ {Top.sig}]
  /\ last' = Outcome("handler", "", 0, "reset")
  /\ UNCHANGED <<fs, inodes, db, active, alive, ghost>>

\* how many chunks json.dump had handed to the file object of the save() of
\* d that was set aside last: at least those that reached the file
Dumped(dbv, d) ==
  IF d # 0 /\ dbv[d].held[Len(dbv[d].held)].pc = "dump"
  THEN dbv[d].held[Len(dbv[d].held)].f.pos .. Len(JsonDump(dbv[d].inner))
  ELSE {0}

\* an exception leaving the call or save() of d (0: there is none) that
\* was set aside last: inside the with block the file is closed, which
\* writes the buffered chunks (those up to m) where the file object stands;
\* the rest of the call or save() is not run
Unwound(st, d, m) ==
  IF d = 0 THEN st
  ELSE LET h == st.db[d].held[Len(st.db[d].held)]
           text == JsonDump(st.db[d].inner)
           db2 == [st.db EXCEPT ![d].held = SubSeq(@, 1, Len(@) - 1)]
       IN [st EXCEPT
             !.inodes = Collect(IF h.pc = "dump"
                                THEN [st.inodes EXCEPT ![h.f.ino] =
                                        WriteAt(@, h.f.pos, SubSeq(text, h.f.pos + 1, m))]
                                ELSE st.inodes,
                                st.fs, db2),
             !.db = db2,
             !.ghost = IF h.pc \in {"entered", "ensured", "wrapped", "mark"}
                       THEN [st.ghost EXCEPT ![d].cut = TRUE]
                       ELSE st.ghost]

\* an exception that ends the process with status c when nothing catches it
\* (SystemExit(1): 1, KeyboardInterrupt: -2) leaves the handler that runs and
\* is raised in the code the handler was called on top of, whose call or
\* save() under way it leaves.  In the loop of _save_all_dbs (of a handler or
\* of the exit hook) the bare except of line 27 catches it when it comes out
\* of db.save(), and the loop goes on; raised between two turns it is either
\* inside the try, at the entry of the save() of skip, which is then not run,
\* or outside, and leaves _save_all_dbs.  It goes through a handler after
\* its loop.  It ends the program, with status c, and the exit hooks follow.
\* It leaves the exit hook of the finalizers, upon which the next hook is
\* called; the status of the exit stays.
Leave(c) ==
  LET n == Len(proc.stack)
      fr == proc.stack[n]
      loop == IF n > 1 THEN proc.stack[n - 1].stage = "sweep"
              ELSE proc.phase = "sweep"
      todo == IF n > 1 THEN proc.stack[n - 1].todo ELSE proc.todo
  IN /\ \E m \in Dumped(db, fr.d), caught \in {fr.d # 0, TRUE}, skip \in {0} \cup todo :
          /\ skip # 0 => (loop /\ caught /\ fr.d = 0)
          /\ LET st == Unwound(Here, fr.d, m)
                 rest == [proc EXCEPT !.stack = SubSeq(@, 1, n - 1), !.exc = 0]
             IN /\ inodes' = st.inodes /\ db' = st.db /\ ghost' = st.ghost
                /\ proc' =
                     IF loop /\ caught
                     THEN IF n > 1 THEN [rest EXCEPT !.stack[n - 1].todo = @ \ {skip}]
                          ELSE [rest EXCEPT !.todo = @ \ {skip}]
                     ELSE IF n > 1 THEN [rest EXCEPT !.exc = c]
                     ELSE IF proc.phase = "run"
                          THEN [rest EXCEPT !.code = c, !.phase = "finalizers",
                                            !.todo = Finalizable(st.db)]
                     ELSE IF proc.phase = "finalizers"
                          THEN [rest EXCEPT !.phase = "sweep", !.todo = active]
                     ELSE [rest EXCEPT !.todo = {}]
     /\ UNCHANGED <<fs, active, alive>>

\* line 35: sys.exit(1) raises SystemExit(1) in _signal_handler
HandlerExit ==
  /\ InHandler("reset")
  /\ Leave(1)
  /\ last' = Outcome("handler", "SystemExit", 0, "exit")

\* signal.default_int_handler raises KeyboardInterrupt
KeyboardInterrupt ==
  /\ InHandler("default")
  /\ Leave(-2)
  /\ last' = Outcome("handler", "KeyboardInterrupt", 0, "")

\* the exception a handler did not catch leaves that handler
Propagate ==
  /\ alive /\ proc.stack # <<>> /\ proc.exc # 0
  /\ Leave(proc.exc)
  /\ last' = Outcome("handler", IF proc.exc = 1 THEN "SystemExit"
                                ELSE "KeyboardInterrupt", 0, "propagate")

\* a Database nothing refers to any more is reclaimed: the weak references
\* to it are cleared (the registry drops it), then its finalizer runs
Reclaim(d) ==
  /\ Ready(d)
  /\ LET st == IF SaveDb(db, DbRef(d, TRUE))
               THEN SaveRun(Here, d, proc.readonly) ELSE Here IN
     /\ fs' = st.fs /\ inodes' = st.inodes /\ ghost' = st.ghost
     /\ db' = [st.db EXCEPT ![d] = [NewDb(@.filename) EXCEPT !.pc = "gone"]]
  /\ active' = active \ {d}
  /\ last' = Outcome("reclaim", "", 0, "")
  /\ UNCHANGED <<alive, proc>>

\* ---------------------------------------------------------- specifications
\* Spec: one Database, every call of the interface on it and on the
\* containers reached through it, save() running to its end.
Next ==
  \/ \E d \in Dbs : Load(d)
  \/ \E d \in Dbs : \E k \in KeysFor(db[d].inner), v \in Values : DbSetItem(d, k, v)
  \/ \E d \in Dbs : \E k \in KeysFor(db[d].inner) : DbDelItem(d, k)
  \/ \E d \in Dbs, v \in Values : DbAppend(d, v)
  \/ \E d \in Dbs, vs \in ValueLists : DbExtend(d, vs)
  \/ \E d \in Dbs, vs \in ValueLists : DbIAdd(d, vs)
  \/ \E d \in Dbs, k \in Keys, v \in Values : DbGet(d, k, v)
  \/ \E d \in Dbs : \E p \in ContainerPaths(db[d].inner) :
        \E k \in KeysFor(Lookup(db[d].inner, p)), v \in Values :
           NestedCall(d, p, "setitem", k, v, <<>>)
  \/ \E d \in Dbs : \E p \in ContainerPaths(db[d].inner) :
        \E k \in KeysFor(Lookup(db[d].inner, p)) :
           NestedCall(d, p, "delitem", k, NoneVal, <<>>)
  \/ \E d \in Dbs : \E p \in ContainerPaths(db[d].inner), k \in Keys, v \in Values :
        NestedCall(d, p, "get", k, v, <<>>)
  \/ \E d \in Dbs : \E p \in ContainerPaths(db[d].inner), v \in Values :
        NestedCall(d, p, "append", a, v, <<>>)
  \/ \E d \in Dbs : \E p \in ContainerPaths(db[d].inner), vs \in ValueLists :
        NestedCall(d, p, "extend", a, NoneVal, vs)
  \/ \E d \in Dbs : \E p \in ContainerPaths(db[d].inner), vs \in ValueLists :
        NestedCall(d, p, "iadd", a, NoneVal, vs)
  \/ \E d \in Dbs : Save(d)

Spec == Init /\ [][Next]_vars

\* SpecSteps: save() step by step, each step able to fail and the process
\* able to be killed between any two, under calls on the root alone.
NextSteps ==
  \/ \E d \in Dbs : Load(d)
  \/ \E d \in Dbs : \E k \in KeysFor(db[d].inner), v \in StepValues : DbSetItem(d, k, v)
  \/ \E d \in Dbs : \E k \in KeysFor(db[d].inner) : DbDelItem(d, k)
  \/ \E d \in Dbs, v \in StepValues : DbAppend(d, v)
  \/ \E d \in Dbs : SaveNoop(d)
  \/ \E d \in Dbs : SaveOpen(d)
  \/ \E d \in Dbs : SaveOpenFails(d)
  \/ \E d \in Dbs, n \in 1..(4 * MaxNodes) : SaveFlush(d, n)
  \/ \E d \in Dbs : SaveWriteFails(d)
  \/ \E d \in Dbs : SaveClose(d)
  \/ \E d \in Dbs : SaveReplace(d)
  \/ \E d \in Dbs : SaveReplaceFails(d)
  \/ \E d \in Dbs : SaveClear(d)
  \/ Crash

SpecSteps == Init /\ [][NextSteps]_vars

\* SpecLife: two Databases on two files, the second of which may be one
\* that cannot be written; the program appends, drops its Databases, ends
\* or is signalled.
LogFile == "log.json"
LifeDbs == {1, 2}
LifeTrees == { RawList(<<>>) }
LifeValues == { Num(1), RawList(<<RawList(<<>>)>>) }
LifeNodes == 3
InitLife ==
  /\ \E t1, t2 \in LifeTrees \cup {NoneVal} :
        /\ fs = [n \in {DbFile, TempName(DbFile), LogFile, TempName(LogFile)} |->
                   IF n = DbFile /\ t1 # NoneVal THEN 1
                   ELSE IF n = LogFile /\ t2 # NoneVal THEN 2 ELSE 0]
        /\ inodes = [i \in Inodes |->
                       IF i = 1 /\ t1 # NoneVal THEN JsonDump(t1)
                       ELSE IF i = 2 /\ t2 # NoneVal THEN JsonDump(t2) ELSE <<>>]
  /\ db = [d \in LifeDbs |-> NewDb(IF d = 1 THEN DbFile ELSE LogFile)]
  /\ active = {}
  /\ alive = TRUE
  /\ last = Outcome("start", "", 0, "")
  /\ ghost = [d \in LifeDbs |-> NoGhost]
  /\ \E ro \in {{}, {TempName(LogFile)}} : proc = NewProc(ro)

NextLife ==
  \/ \E d \in LifeDbs : Load(d)
  \/ \E d \in LifeDbs, v \in LifeValues :
        Size(db[d].inner) < LifeNodes /\ AppendEnsure(d, v)
  \/ \E d \in LifeDbs : AppendWrap(d)
  \/ \E d \in LifeDbs : AppendStore(d)
  \/ \E d \in LifeDbs : CallMark(d)
  \/ \E d \in LifeDbs : Reclaim(d)
  \/ ProcExit
  \/ \E d \in LifeDbs : ExitFinalizer(d)
  \/ ExitNextHook
  \/ \E d \in LifeDbs : ExitSweep(d)
  \/ ExitDone
  \/ \E d \in LifeDbs : SaveClose(d)
  \/ \E d \in LifeDbs : SaveReplace(d)
  \/ \E d \in LifeDbs : SaveClear(d)
  \/ \E s \in Signals : Signal(s)
  \/ \E d \in LifeDbs : HandlerSave(d)
  \/ HandlerReset
  \/ HandlerExit
  \/ KeyboardInterrupt
  \/ Propagate

SpecLife == InitLife /\ [][NextLife]_vars

\* SpecRoot: the calls on the Database itself with every kind of key (a
\* name, a position in range or out of range) against every kind of root,
\* and values that hold containers.
RootKeys == { a, IntKey(0), IntKey(1) }
RootValues == { Num(1), RawList(<<RawList(<<>>)>>) }
NextRoot ==
  \/ \E d \in Dbs : Load(d)
  \/ \E d \in Dbs, k \in RootKeys, v \in RootValues : DbSetItem(d, k, v)
  \/ \E d \in Dbs, k \in RootKeys : DbDelItem(d, k)
  \/ \E d \in Dbs, v \in RootValues : DbAppend(d, v)
  \/ \E d \in Dbs, k \in RootKeys, v \in RootValues : DbGet(d, k, v)
  \/ \E d \in Dbs, k \in RootKeys : DbContains(d, k)
  \/ \E d \in Dbs : Save(d)

SpecRoot == Init /\ [][NextRoot]_vars

\* SpecTwo: two Databases opened on the same file in one process, each
\* call and each save() running to its end before the next begins.
TwoDbs == {1, 2}
TwoTrees == { RawList(<<>>), RawDict(<<>>) }
InitTwo ==
  /\ \E t \in TwoTrees \cup {NoneVal} :
        /\ fs = [n \in {DbFile, TempName(DbFile)} |->
                   IF n = DbFile /\ t # NoneVal THEN 1 ELSE 0]
        /\ inodes = [i \in Inodes |-> IF i = 1 /\ t # NoneVal THEN JsonDump(t) ELSE <<>>]
  /\ db = [d \in TwoDbs |-> NewDb(DbFile)]
  /\ active = {}
  /\ alive = TRUE
  /\ last = Outcome("start", "", 0, "")
  /\ ghost = [d \in TwoDbs |-> NoGhost]
  /\ proc = NewProc({})

NextTwo ==
  \/ \E d \in TwoDbs : Load(d)
  \/ \E d \in TwoDbs : \E k \in KeysFor(db[d].inner), v \in StepValues : DbSetItem(d, k, v)
  \/ \E d \in TwoDbs, v \in StepValues : DbAppend(d, v)
  \/ \E d \in TwoDbs : Save(d)

SpecTwo == InitTwo /\ [][NextTwo]_vars

\* SpecSignal: one Database whose calls and whose save() run step by step,
\* signals able to arrive before and after every step, in the program, in
\* the handler and in the exit hooks, and the exit of the process.
SignalTrees == { RawList(<<>>), RawDict(<<>>) }
SignalValues == { Num(1), RawList(<<RawList(<<>>)>>) }
SignalNodes == 3
InitSignal ==
  /\ \E t \in SignalTrees \cup {NoneVal} :
        /\ fs = [n \in {DbFile, TempName(DbFile)} |->
                   IF n = DbFile /\ t # NoneVal THEN 1 ELSE 0]
        /\ inodes = [i \in Inodes |-> IF i = 1 /\ t # NoneVal THEN JsonDump(t) ELSE <<>>]
  /\ db = [d \in Dbs |-> NewDb(DbFile)]
  /\ active = {}
  /\ alive = TRUE
  /\ last = Outcome("start", "", 0, "")
  /\ ghost = [d \in Dbs |-> NoGhost]
  /\ proc = NewProc({})

NextSignal ==
  \/ \E d \in Dbs : Load(d)
  \/ \E d \in Dbs : \E k \in KeysFor(db[d].inner), v \in SignalValues :
        Size(db[d].inner) < SignalNodes /\ SetItemEnter(d, k, v)
  \/ \E d \in Dbs : SetItemWrap(d)
  \/ \E d \in Dbs : SetItemStore(d)
  \/ \E d \in Dbs, v \in SignalValues :
        Size(db[d].inner) < SignalNodes /\ AppendEnsure(d, v)
  \/ \E d \in Dbs : AppendWrap(d)
  \/ \E d \in Dbs : AppendStore(d)
  \/ \E d \in Dbs : CallMark(d)
  \/ \E d \in Dbs : SaveNoop(d)
  \/ \E d \in Dbs : SaveOpen(d)
  \/ \E d \in Dbs, n \in 1..(4 * MaxNodes) : SaveFlush(d, n)
  \/ \E d \in Dbs : SaveClose(d)
  \/ \E d \in Dbs : SaveReplace(d)
  \/ \E d \in Dbs : SaveClear(d)
  \/ \E s \in Signals : Signal(s)
  \/ \E d \in Dbs : HandlerSave(d)
  \/ HandlerReset
  \/ HandlerExit
  \/ KeyboardInterrupt
  \/ Propagate
  \/ ProcExit
  \/ \E d \in Dbs : ExitFinalizer(d)
  \/ ExitNextHook
  \/ \E d \in Dbs : ExitSweep(d)
  \/ ExitDone

SpecSignal == InitSignal /\ [][NextSignal]_vars

\* ------------------------------------------------------------------ claims
\* the calls that change a container
Mutators == {"setitem", "delitem", "append", "extend", "iadd"}
Root(d) == db[d].inner
Initialized(d) == db[d].pc # "unopened" /\ Root(d) # NoneVal

\* C1 (dirty propagation): a mutation (append, extend, set, delete) that
\* succeeds on a container reached by indexing two or more levels down from
\* the root of a Database whose flag is clear sets the flag.
C1_DirtyPropagation ==
  [][\A d \in Dbs :
       (/\ last'.op \in Mutators /\ last'.err = "" /\ last'.depth >= 2
        /\ ~db[d].modified)
       => db'[d].modified]_vars

\* C2 (tracking invariant): every mapping and sequence reachable from the
\* root of a Database is a tracked container bound to that Database.
C2_AllTracked ==
  \A d \in Dbs : Initialized(d) => AllTracked(d, Root(d))

\* C3 (dirty-flag invariant): with an initialized root and the flag clear,
\* the tree serializes to what the Database last loaded or saved.
C3_CleanMeansPersisted ==
  \A d \in Dbs :
     (Initialized(d) /\ db[d].pc = "idle" /\ ~db[d].modified)
     => JsonDump(Root(d)) = ghost[d].snapshot

\* C4 (new mapping document): set(key, value) on a Database whose root is
\* uninitialized succeeds, makes the root a mapping holding exactly that
\* entry, and sets the flag.
C4_SetInitializesMapping ==
  [][\A d \in Dbs :
       (/\ last'.op = "setitem" /\ last'.depth = 0
        /\ db[d].pc = "idle" /\ Root(d) = NoneVal)
       => /\ last'.err = ""
          /\ IsJsonDict(db'[d].inner)
          /\ Len(db'[d].inner.items) = 1
          /\ db'[d].modified]_vars

\* C5 (root-kind stability): once the root of a Database is a mapping or a
\* sequence, no step makes it the other kind or uninitialized again.
C5_RootKindStable ==
  [][\A d \in Dbs :
       IsContainer(Root(d)) => db'[d].inner.kind = Root(d).kind]_vars
\* a sequence-rooted Database with elements on which a call for a mapping
\* has just failed
C5_Witness ==
  \E d \in Dbs :
     /\ IsJsonList(Root(d)) /\ Len(Root(d).items) > 0
     /\ last.op = "get" /\ last.err = "TypeError"

\* C6 (kind guard): append, extend and += on a mapping-rooted Database and
\* get on a sequence-rooted one raise the kind-mismatch TypeError and leave
\* the tree, the flag and the files as they were.
C6_KindGuard ==
  [][\A d \in Dbs :
       (/\ last'.depth = 0
        /\ \/ last'.op \in {"append", "extend", "iadd"} /\ IsDict(Root(d))
           \/ last'.op = "get" /\ IsList(Root(d)))
       => /\ last'.err = "TypeError"
          /\ db' = db /\ fs' = fs /\ inodes' = inodes]_vars
\* a mapping-rooted Database with entries on which += has just failed
C6_Witness ==
  \E d \in Dbs :
     /\ IsJsonDict(Root(d)) /\ Len(Root(d).items) > 0
     /\ last.op = "iadd" /\ last.err = "TypeError" /\ last.depth = 0

\* t2 is the tree t of d with a default from Values put, wrapped and tracked
\* by d, under a key that one of its mappings did not hold
InsertedDefault(d, t, t2) ==
  LET t0 == IF t = NoneVal THEN JsonDictInit(d, RawDict(<<>>)) ELSE t
  IN \E p \in {<<>>} \cup ContainerPaths(t0), k \in Keys :
        LET c == Lookup(t0, p)
        IN /\ IsDict(c) /\ ~HasKey(c, k)
           /\ ValidPath(t2, Append(p, k))
           /\ LET x == Lookup(t2, Append(p, k))
              IN /\ t2 = ReplaceAt(t0, p, DictStore(c, k, x))
                 /\ Plain(x) \in Values
                 /\ IsContainer(x) => x.owner = d

\* C7 (default materialization): get(key, default) on a Database or on a
\* mapping of its tree returns a value the tree holds; when the key was
\* absent the wrapped default has been inserted under it and the flag set,
\* when it was present nothing has changed.
C7_DefaultMaterialization ==
  [][\A d \in Dbs :
       (last'.op = "get" /\ last'.err = "")
       => /\ last'.ret = "stored"
          /\ \/ db'[d] = db[d]
             \/ db'[d].modified /\ InsertedDefault(d, Root(d), db'[d].inner)]_vars

\* the text a file holds is a whole JSON document
Complete(text) == JsonLoad(text).ok

\* C8 (atomic save): while a save() has not yet replaced the file, also
\* when the process is killed there, the file holds what it held when the
\* save() began; once replaced it holds the serialization of the tree; and
\* at every step the file, if there is one, holds a complete document.
C8_AtomicSave ==
  \A d \in Dbs :
     /\ db[d].pc \in {"dump", "closed"} => FileText(db[d].filename) = ghost[d].pre
     /\ db[d].pc = "replaced" => FileText(db[d].filename) = JsonDump(Root(d))
     /\ Exists(db[d].filename) => Complete(FileText(db[d].filename))
\* the process was killed with part of the text in the temporary file and
\* an older document in the file
C8_Witness ==
  \E d \in Dbs :
     /\ ~alive /\ db[d].pc = "dump" /\ db[d].f.pos > 0
     /\ Exists(db[d].filename)
     /\ ~Complete(FileText(TempName(db[d].filename)))
     /\ FileText(db[d].filename) # JsonDump(Root(d))

\* C9 (save failure): a save() that fails at open, at a write or at the
\* replace ends with the exception, the file as it was when the save()
\* began, the tree as it was and the flag still set, so that save() has
\* something to write again.
C9_SaveFailure ==
  [][\A d \in Dbs :
       /\ last'.op = "save" => db'[d].inner = db[d].inner
       /\ (last'.op = "save" /\ last'.err = "OSError")
          => /\ db'[d].pc = "idle"
             /\ db'[d].modified /\ db'[d].inner # NoneVal
             /\ TextOf(fs', inodes', db[d].filename) = FileText(db[d].filename)
             /\ TextOf(fs', inodes', db[d].filename) = ghost'[d].pre]_vars
\* a save() has failed at a write, leaving part of the text in the
\* temporary file, and the file holds an older document than the tree
C9_Witness ==
  \E d \in Dbs :
     /\ last.op = "save" /\ last.err = "OSError" /\ last.ret = "write"
     /\ Exists(TempName(db[d].filename))
     /\ FileText(TempName(db[d].filename)) # <<>>
     /\ Exists(db[d].filename)
     /\ FileText(db[d].filename) # JsonDump(Root(d))

\* C10 (idempotent save): a save() that follows a save() which returned
\* writes nothing: the files stay as they are and the flag stays clear.
C10_IdempotentSave ==
  [][\A d \in Dbs :
       (last.op = "save" /\ last.err = "" /\ last'.op = "save")
       => /\ last'.ret = "noop"
          /\ fs' = fs /\ inodes' = inodes
          /\ ~db'[d].modified]_vars
\* a save() that wrote nothing, of a Database whose tree has entries and is
\* what the file holds
C10_Witness ==
  \E d \in Dbs :
     /\ last.op = "save" /\ last.ret = "noop"
     /\ Initialized(d) /\ Len(Root(d).items) > 0
     /\ ghost[d].snapshot = JsonDump(Root(d))
     /\ FileText(db[d].filename) = JsonDump(Root(d))
     /\ ~db[d].modified

\* the tree of d is what its file holds and its flag is clear
Flushed(d) ==
  /\ ~db[d].modified
  /\ FileText(db[d].filename) = JsonDump(Root(d))
\* the save() of d succeeds when it has something to write
Writable(d) == TempName(db[d].filename) \notin proc.readonly

\* every registered Database with a root whose file can be written has its
\* flag clear, and its tree in its file unless a call on it was left before
\* it set the flag
SweepDone ==
  \A d \in active :
     (Root(d) # NoneVal /\ Writable(d))
     => /\ ~db[d].modified
        /\ ~ghost[d].cut => Flushed(d)
\* a signal was caught by _signal_handler and the exit status is not 1
StatusNotOne == proc.caught # "" /\ proc.code # 1

\* C11 (shutdown sweep): when the process has ended, by a normal exit or
\* after an intercepted signal, every registered Database that was dirty,
\* has a root and a file that can be written has its tree in its file and
\* its flag clear, whether or not the save() of another one failed; and if
\* a signal was intercepted the exit status is 1.
C11_ShutdownSweep ==
  proc.phase = "dead" => (SweepDone /\ ~StatusNotOne)

\* C12 (flush on reclamation): a Database with a root and its flag set that
\* is reclaimed while the program runs has its tree written to its file,
\* when the file can be written.
C12_FlushOnReclaim ==
  [][\A d \in DOMAIN db :
       (/\ last'.op = "reclaim" /\ db'[d].pc = "gone" /\ db[d].pc = "idle"
        /\ db[d].modified /\ Root(d) # NoneVal /\ Writable(d))
       => TextOf(fs', inodes', db[d].filename) = JsonDump(Root(d))]_vars

\* the text is a JSON document whose root is neither an object nor an array
ScalarText(text) == JsonLoad(text).ok /\ ~IsContainer(JsonLoad(text).v)

\* C13 (scalar-rooted file): while the file of an open Database holds a
\* scalar document (the Database was opened on it), no get, set, delete,
\* append, extend or += on the Database succeeds and no step replaces what
\* the file holds.
C13_ScalarRoot ==
  [][\A d \in Dbs :
       (/\ db[d].pc = "idle" /\ Exists(db[d].filename)
        /\ ScalarText(FileText(db[d].filename)))
       => /\ (last'.op \in Mutators \cup {"get"} /\ last'.depth = 0)
             => last'.err # ""
          /\ TextOf(fs', inodes', db[d].filename) = FileText(db[d].filename)]_vars

\* every key of every mapping of the tree is a string
RECURSIVE AllStrKeys(_)
AllStrKeys(v) ==
  IF ~IsContainer(v) THEN TRUE
  ELSE /\ IsDict(v) => \A i \in 1..Len(v.items) : v.items[i].k.t = "str"
       /\ \A i \in 1..Len(v.items) : AllStrKeys(ChildAt(v, i))

\* C14 (string-key validation): a set or a get with a non-string key on a
\* Database whose root is a mapping or uninitialized raises and leaves the
\* tree, the flag and the files as they were; so every key of every mapping
\* of the tree is a string.
C14_StringKeys ==
  [][\A d \in Dbs :
       /\ \A k \in RootKeys, v \in RootValues :
            (/\ k.t # "str" /\ ~IsList(Root(d))
             /\ (DbSetItem(d, k, v) \/ DbGet(d, k, v)))
            => /\ last'.err # ""
               /\ db' = db /\ fs' = fs /\ inodes' = inodes
       /\ AllStrKeys(db'[d].inner)]_vars

\* C15 (contains is pure): contains(key) on a Database in any state answers
\* whether the root holds the key and changes neither the Database (an
\* uninitialized root stays uninitialized) nor the files.
C15_ContainsPure ==
  [][\A d \in Dbs :
       last'.op = "contains"
       => /\ db' = db /\ fs' = fs /\ inodes' = inodes
          /\ last'.err = ""
          /\ last'.ret = "true" => (IsContainer(Root(d)) /\ Len(Root(d).items) > 0)
          /\ \A k \in RootKeys :
               (IsDict(Root(d)) /\ DbContains(d, k))
               => (last'.ret = "true" <=> \E i \in 1..Len(Root(d).items) :
                                              Root(d).items[i].k = k)]_vars
\* contains has answered no on a Database without a file whose root is
\* still uninitialized and whose flag is clear
C15_Witness ==
  \E d \in Dbs :
     /\ last.op = "contains" /\ last.ret = "false"
     /\ db[d].pc = "idle" /\ Root(d) = NoneVal /\ ~db[d].modified
     /\ ~Exists(db[d].filename)

\* what a fresh open of the file of d yields
Reopened(d) == LoadInner(d, JsonLoad(FileText(db[d].filename)).v)

\* C16 (round trip): after a save() of a Database with a mapping or
\* sequence root of JSON data (string keys) has returned, the file is there
\* and a fresh open of it yields a tree equal to the tree of the Database.
C16_RoundTrip ==
  \A d \in Dbs :
     (/\ last.op = "save" /\ last.err = ""
      /\ IsContainer(Root(d)) /\ AllStrKeys(Root(d)))
     => /\ Exists(db[d].filename)
        /\ JsonLoad(FileText(db[d].filename)).ok
        /\ Plain(Reopened(d)) = Plain(Root(d))

\* C18 (failed delete is side-effect free): a delete or a set on the root
\* that fails with KeyError or IndexError leaves the tree and the flag as
\* they were; one that succeeds sets the flag.
C18_FailedDelete ==
  [][\A d \in Dbs :
       (last'.op \in {"delitem", "setitem"} /\ last'.depth = 0)
       => /\ last'.err \in {"KeyError", "IndexError"} => db' = db
          /\ last'.err = "" => db'[d].modified]_vars

\* C19 (load leaves the Database clean): right after a Database was opened
\* on a file holding an object or an array, its flag is clear.
C19_LoadClean ==
  \A d \in Dbs :
     (last.op = "load" /\ last.err = "" /\ IsContainer(Root(d)))
     => ~db[d].modified

\* C17 (last writer wins): with two Databases on one file, a save() of one
\* that has its flag set and a root returns without error, whatever the
\* other one wrote before; the file then holds the serialization of the
\* saving Database's own tree, and the other Database is as it was.
C17_LastWriterWins ==
  [][\A d \in TwoDbs :
       (Save(d) /\ db[d].modified /\ Root(d) # NoneVal)
       => /\ last'.err = "" /\ last'.ret = "saved"
          /\ TextOf(fs', inodes', db[d].filename) = JsonDump(Root(d))
          /\ \A e \in TwoDbs \ {d} : db'[e] = db[e]]_vars
\* a save() has just put the tree of one Database over the different tree
\* the other one had saved there, and the other one still has its flag
\* clear
C17_Witness ==
  \E d, e \in TwoDbs :
     /\ d # e /\ last.op = "save" /\ last.ret = "saved"
     /\ Initialized(d) /\ Initialized(e)
     /\ FileText(db[d].filename) = JsonDump(Root(d))
     /\ ghost[e].snapshot = JsonDump(Root(e))
     /\ ghost[e].snapshot # ghost[d].snapshot
     /\ ghost[e].snapshot # FileText(db[e].filename)
     /\ ~db[e].modified /\ ~db[d].modified
     /\ Len(Root(e).items) > 0

\* C20 (signal during a save): once a signal has been caught at a step of a
\* running save() (file open, partly or fully written, or replaced with the
\* flag still set), then through the handler's sweep, further signals and
\* the exit of the process the file, if there is one, holds a complete
\* document, which is what it held when that save() began or the
\* serialization of the tree.
C20_SignalDuringSave ==
  \A d \in Dbs :
     proc.hit.d = d
     => /\ Exists(db[d].filename) => Complete(FileText(db[d].filename))
        /\ \/ FileText(db[d].filename) = proc.hit.pre
           \/ FileText(db[d].filename) = JsonDump(Root(d))
\* the process has ended with status 1 after a signal that came while
\* json.dump was writing; the file held an older document when the save()
\* began and now holds the tree
C20_Witness ==
  \E d \in Dbs :
     /\ proc.phase = "dead" /\ proc.code = 1
     /\ proc.hit.d = d /\ proc.hit.pc = "dump" /\ proc.caught = "dump"
     /\ proc.hit.pre # NoText
     /\ FileText(db[d].filename) # proc.hit.pre
     /\ FileText(db[d].filename) = JsonDump(Root(d))
     /\ Len(Root(d).items) > 1

====
